---- MODULE Spec2Model ----
(***************************************************************************)
(* A model of the screening engine of the stock_git repository:            *)
(*   - the retry wrappers safe_stock_api_call (potential_stock_finder.py)  *)
(*     and safe_data_fetch (tqqq_analysis.py),                             *)
(*   - process_stock of the breakout screener (potential_stock_finder.py), *)
(*   - process_stock of the wave screener (wave_analysis.py),              *)
(*   - analyze_tqqq of the trend screener (tqqq_analysis.py),              *)
(*   - run_analysis of the two equity screeners, with its worker pool,     *)
(*   - run_all and run_stock_analysis of main.py.                          *)
(* Each part has its own variables and its own specification; under one    *)
(* part's specification the other parts' variables stay idle.              *)
(*                                                                         *)
(* Arithmetic.  Prices, volumes and moving averages are floats in the      *)
(* source.  Here prices and volumes are integers and a mean is the exact   *)
(* rational sum/w, compared by cross multiplication; a rolling mean over   *)
(* fewer bars than its window is NaN, and every comparison with NaN is     *)
(* false, as in pandas/numpy.  Market capitalisations are in units of      *)
(* 10^9 won so that they fit the checker's integers.                       *)
(***************************************************************************)
EXTENDS Integers, Sequences, FiniteSets, TLC

VARIABLES
    rt_fn,       \* which wrapper runs: "stock_api" or "data_fetch" ("idle": none)
    rt_retries,  \* the retries argument
    rt_delay,    \* the delay argument
    rt_script,   \* the upstream's behaviour: its outcome at the 1st, 2nd, ... call
    rt_attempt,  \* the loop variable attempt (0-based)
    rt_pc,       \* "loop": in the for loop; "done": returned; "raised": an exception left the wrapper
    rt_ret,      \* the value returned
    rt_trace,    \* the calls of func and the sleeps so far, in order
    bk_in,       \* breakout process_stock: the instrument and what the provider returns for it
    bk_pc,       \* "call" before process_stock ran, "done" after
    bk_ret,      \* process_stock's return value
    wv_in,       \* wave process_stock: the instrument evaluated last and what its indicators gave
    wv_ret,      \* what process_stock returned for it
    wv_prev,     \* what process_stock returned for the instrument before it (collected by the pool)
    tq_in,       \* analyze_tqqq: what get_tqqq_data obtains
    tq_pc,       \* "call" before analyze_tqqq ran, "done" after
    tq_ret,      \* analyze_tqqq's return value
    rn,          \* one run of run_analysis of an equity screener (a record, see section 5)
    mn,          \* one invocation of run_all or run_stock_analysis of main.py (section 6)
    ix           \* one call of an indicator function (a record, see section 7)

rtVars == <<rt_fn, rt_retries, rt_delay, rt_script, rt_attempt, rt_pc, rt_ret, rt_trace>>
bkVars == <<bk_in, bk_pc, bk_ret>>
wvVars == <<wv_in, wv_ret, wv_prev>>
tqVars == <<tq_in, tq_pc, tq_ret>>
runVars == <<rn, mn, ix>>
vars == <<rtVars, bkVars, wvVars, tqVars, runVars>>

\* Python's None, where the other values are strings, and where they are
\* records (a table, a result dictionary).
None == "None"
NoneRec == [kind |-> "None"]

Min(a, b) == IF a <= b THEN a ELSE b

\* s[i] + ... + s[j], summed by halves to keep the recursion shallow.
RECURSIVE SumRange(_, _, _)
SumRange(s, i, j) ==
    IF i > j THEN 0
    ELSE IF i = j THEN s[i]
    ELSE LET m == (i + j) \div 2
         IN SumRange(s, i, m) + SumRange(s, m + 1, j)

\* A float: NaN, or the rational sum/w (w > 0).
NaN == [nan |-> TRUE, sum |-> 0, w |-> 1]
Num(x) == [nan |-> FALSE, sum |-> x, w |-> 1]

\* Float comparisons: false whenever an operand is NaN.
FLt(x, y) == ~x.nan /\ ~y.nan /\ x.sum * y.w < y.sum * x.w
FLe(x, y) == ~x.nan /\ ~y.nan /\ x.sum * y.w <= y.sum * x.w
FGt(x, y) == FLt(y, x)
FGe(x, y) == FLe(y, x)

\* x * (num/den); NaN stays NaN.
FScale(x, num, den) == IF x.nan THEN NaN ELSE [nan |-> FALSE, sum |-> x.sum * num, w |-> x.w * den]

\* series.rolling(window=w).mean() at the bar at position i (1-based): NaN
\* until w bars are there.
RollingMeanAt(s, w, i) ==
    IF i < w THEN NaN ELSE [nan |-> FALSE, sum |-> SumRange(s, i - w + 1, i), w |-> w]

\* ... .iloc[-1] of the rolling mean.
RollingMean(s, w) == RollingMeanAt(s, w, Len(s))

(***************************************************************************)
(* The idle values of each part.                                           *)
(***************************************************************************)
RtIdle ==
    /\ rt_fn = "idle" /\ rt_retries = 0 /\ rt_delay = 0 /\ rt_script = <<>>
    /\ rt_attempt = 0 /\ rt_pc = "idle" /\ rt_ret = NoneRec /\ rt_trace = <<>>
BkIdle == bk_in = NoneRec /\ bk_pc = "idle" /\ bk_ret = None
WvIdle == wv_in = NoneRec /\ wv_ret = NoneRec /\ wv_prev = NoneRec
TqIdle == tq_in = NoneRec /\ tq_pc = "idle" /\ tq_ret = NoneRec
RunIdle == rn = [pc |-> "idle"] /\ mn = [pc |-> "idle"] /\ ix = [pc |-> "idle"]

(***************************************************************************)
(* 1. The retry wrappers.                                                  *)
(***************************************************************************)
\* The largest retries argument tried.
MaxRetries == 4

\* The default delay arguments of safe_stock_api_call and of safe_data_fetch.
DefaultDelayStock == 3
DefaultDelayFetch == 2

\* The delay arguments tried: the two wrappers' defaults.
Delays == {DefaultDelayFetch, DefaultDelayStock}

\* What one call of the upstream does: it returns a non-empty table, an empty
\* table or None, or it raises requests.exceptions.JSONDecodeError or another
\* Exception.
Outcomes == {"table", "empty", "none", "json", "exc"}

\* The object a call returns, tagged with the call that returned it.
Table(kind, call) == [kind |-> kind, call |-> call]

CallEv == [ev |-> "call", d |-> 0]
SleepEv(d) == [ev |-> "sleep", d |-> d]

\* A wrapper whose last attempt re-raises instead of returning None.
SafeStockApiCallStepReraise(o, attempt, retries, delay) ==
    CASE o \in {"table", "empty"} ->
            [pc |-> "done", ret |-> Table(o, attempt + 1), sleep |-> 0]
      [] o = "none" ->
            [pc |-> "loop", ret |-> NoneRec, sleep |-> delay]
      [] o = "json" ->
            [pc |-> "loop", ret |-> NoneRec, sleep |-> delay * 2]
      [] o = "exc" ->
            IF attempt < retries - 1
            THEN [pc |-> "loop", ret |-> NoneRec, sleep |-> delay]
            ELSE [pc |-> "raised", ret |-> NoneRec, sleep |-> 0]

\* One iteration of safe_stock_api_call's loop, after func returned or raised
\* outcome o at iteration attempt: where the wrapper goes, what it returns, and
\* how long it sleeps (0: no sleep).
SafeStockApiCallStep(o, attempt, retries, delay) ==
    CASE o \in {"table", "empty"} ->
            [pc |-> "done", ret |-> Table(o, attempt + 1), sleep |-> 0]
      [] o = "none" ->
            [pc |-> "loop", ret |-> NoneRec, sleep |-> delay]
      [] o = "json" ->
            [pc |-> "loop", ret |-> NoneRec, sleep |-> delay * 2]
      [] o = "exc" ->
            IF attempt < retries - 1
            THEN [pc |-> "loop", ret |-> NoneRec, sleep |-> delay]
            ELSE [pc |-> "done", ret |-> NoneRec, sleep |-> 0]

\* A safe_data_fetch that returns an empty table like any other.
SafeDataFetchStepEmptyValid(o, attempt, retries, delay) ==
    CASE o \in {"table", "empty"} ->
            [pc |-> "done", ret |-> Table(o, attempt + 1), sleep |-> 0]
      [] o \in {"none", "json", "exc"} ->
            IF attempt < retries - 1
            THEN [pc |-> "loop", ret |-> NoneRec, sleep |-> delay]
            ELSE [pc |-> "done", ret |-> NoneRec, sleep |-> 0]

\* One iteration of safe_data_fetch's loop.  df.empty on a None result raises
\* AttributeError, and a JSON decode error is an Exception like any other.
SafeDataFetchStep(o, attempt, retries, delay) ==
    CASE o = "table" ->
            [pc |-> "done", ret |-> Table(o, attempt + 1), sleep |-> 0]
      [] o = "empty" ->
            [pc |-> "loop", ret |-> NoneRec, sleep |-> 0]
      [] o \in {"none", "json", "exc"} ->
            IF attempt < retries - 1
            THEN [pc |-> "loop", ret |-> NoneRec, sleep |-> delay]
            ELSE [pc |-> "done", ret |-> NoneRec, sleep |-> 0]

\* A loop that runs once too often: range(retries + 1).
LoopContinuesOffByOne(attempt, retries) == attempt <= retries

\* for attempt in range(retries)
LoopContinues(attempt, retries) == attempt < retries

Step(fn, o, attempt, retries, delay) ==
    IF fn = "stock_api"
    THEN SafeStockApiCallStep(o, attempt, retries, delay)
    ELSE SafeDataFetchStep(o, attempt, retries, delay)

RtInit ==
    /\ rt_fn \in {"stock_api", "data_fetch"}
    /\ rt_retries \in 0..MaxRetries
    /\ rt_delay \in Delays
    /\ rt_script \in [1..(rt_retries + 1) -> Outcomes]
    /\ rt_attempt = 0
    /\ rt_pc = "loop"
    /\ rt_ret = NoneRec
    /\ rt_trace = <<>>

\* One iteration of the loop: the call of func, then what the wrapper does with
\* its outcome.
Attempt(fn) ==
    /\ rt_fn = fn
    /\ rt_pc = "loop"
    /\ LoopContinues(rt_attempt, rt_retries)
    /\ rt_attempt + 1 \in DOMAIN rt_script
    /\ LET s == Step(fn, rt_script[rt_attempt + 1], rt_attempt, rt_retries, rt_delay)
       IN /\ rt_pc' = s.pc
          /\ rt_ret' = s.ret
          /\ rt_trace' = rt_trace \o <<CallEv>>
                           \o (IF s.sleep > 0 THEN <<SleepEv(s.sleep)>> ELSE <<>>)
          /\ rt_attempt' = IF s.pc = "loop" THEN rt_attempt + 1 ELSE rt_attempt
    /\ UNCHANGED <<rt_fn, rt_retries, rt_delay, rt_script>>

SafeStockApiCallAttempt == Attempt("stock_api") /\ UNCHANGED <<bkVars, wvVars, tqVars, runVars>>
SafeDataFetchAttempt == Attempt("data_fetch") /\ UNCHANGED <<bkVars, wvVars, tqVars, runVars>>

\* The loop ran out: safe_stock_api_call logs and returns None, safe_data_fetch
\* falls off its end, which returns None as well.
Exhausted ==
    /\ rt_pc = "loop"
    /\ ~LoopContinues(rt_attempt, rt_retries)
    /\ rt_pc' = "done"
    /\ rt_ret' = NoneRec
    /\ UNCHANGED <<rt_fn, rt_retries, rt_delay, rt_script, rt_attempt, rt_trace>>
    /\ UNCHANGED <<bkVars, wvVars, tqVars, runVars>>

RetryNext == SafeStockApiCallAttempt \/ SafeDataFetchAttempt \/ Exhausted

InitRetry == RtInit /\ BkIdle /\ WvIdle /\ TqIdle /\ RunIdle

SpecRetry == InitRetry /\ [][RetryNext]_vars

\* The wrapper's loop is sequential code: a step that can be taken is taken.
FairSpecRetry == SpecRetry /\ WF_vars(RetryNext)

(***************************************************************************)
(* 2. The trend screener: analyze_tqqq.                                    *)
(***************************************************************************)
\* The bars tried beyond the moving average's window.
TqExtraBars == 1

MaWindow200 == 200

\* Series lengths: one bar, one bar short of the window, the window and more.
TqLens == {1, MaWindow200 - 1} \cup {MaWindow200 + k : k \in 0..TqExtraBars}

\* Close prices (in cents): bars that left the window, the window's bars other
\* than the latest, and the latest bar.  With 199 bars at 1989 and a latest
\* close of 2189 the close equals the envelope exactly.
TqOldCloses == {500, 3000}
TqBaseCloses == {1000, 1989}
TqLastCloses == {999, 1000, 1001, 1100, 1101, 1988, 1989, 2188, 2189, 2190}

\* What get_tqqq_data meets: an exception of yfinance, an empty history, or a
\* history of n bars; and whether generate_tqqq_chart manages to write the chart.
TqInputs ==
    [fetch : {"exc", "empty"}, n : {0}, old : {0}, base : {0}, last : {0}, chart : {FALSE}]
    \cup [fetch : {"ok"}, n : TqLens, old : TqOldCloses, base : TqBaseCloses,
          last : TqLastCloses, chart : BOOLEAN]

\* The Close column of the history.
TqCloses(in) ==
    [i \in 1..in.n |->
        IF i = in.n THEN in.last
        ELSE IF i > in.n - MaWindow200 THEN in.base ELSE in.old]

\* get_tqqq_data: None on an exception or an empty history, else the history.
GetTqqqData(in) == IF in.fetch = "ok" THEN TqCloses(in) ELSE <<>>

\* A recommendation that takes the envelope for the moving average.
RecommendationNoEnvelope(close_price, ma200, envelope) ==
    IF FLt(close_price, ma200) THEN "SGOV"
    ELSE IF FGe(close_price, ma200) /\ FLt(close_price, ma200) THEN "TQQQ"
    ELSE "SPLG"

\* The if / elif / else of analyze_tqqq.
Recommendation(close_price, ma200, envelope) ==
    IF FLt(close_price, ma200) THEN "SGOV"
    ELSE IF FGe(close_price, ma200) /\ FLt(close_price, envelope) THEN "TQQQ"
    ELSE "SPLG"

AnalyzeTqqqResult(in) ==
    IF in.fetch # "ok" THEN NoneRec
    ELSE LET closes == GetTqqqData(in)
             close_price == Num(closes[Len(closes)])
             ma200 == RollingMean(closes, MaWindow200)
             envelope == FScale(ma200, 11, 10)
         IN [kind |-> "result",
             close_price |-> close_price,
             ma200 |-> ma200,
             envelope |-> envelope,
             recommendation |-> Recommendation(close_price, ma200, envelope),
             chart_path |-> IF in.chart THEN "chart" ELSE None]

TqInit == tq_in \in TqInputs /\ tq_pc = "call" /\ tq_ret = NoneRec

AnalyzeTqqq ==
    /\ tq_pc = "call"
    /\ tq_ret' = AnalyzeTqqqResult(tq_in)
    /\ tq_pc' = "done"
    /\ UNCHANGED <<tq_in, rtVars, bkVars, wvVars, runVars>>

\* The next run of the alert, with what the provider returns then.
TqNextRun ==
    /\ tq_pc = "done"
    /\ tq_in' \in TqInputs
    /\ tq_pc' = "call"
    /\ tq_ret' = NoneRec
    /\ UNCHANGED <<rtVars, bkVars, wvVars, runVars>>

TqNext == AnalyzeTqqq \/ TqNextRun

InitTqqq == TqInit /\ RtIdle /\ BkIdle /\ WvIdle /\ RunIdle

SpecTqqq == InitTqqq /\ [][TqNext]_vars

\* The exact value of the latest bar's 200-day moving average, when defined.
TqMaDefined == tq_in.fetch = "ok" /\ tq_in.n >= MaWindow200
TqMaSum == SumRange(TqCloses(tq_in), tq_in.n - MaWindow200 + 1, tq_in.n)

\* C9: with a defined 200-day moving average MA, analyze_tqqq recommends SGOV
\* iff close < MA, TQQQ iff MA <= close < 1.10*MA, SPLG iff close >= 1.10*MA.
C9_ThreeWayRecommendation ==
    (tq_pc = "done" /\ TqMaDefined) =>
        LET close == tq_in.last
            r == tq_ret.recommendation
        IN /\ tq_ret.kind = "result"
           /\ r \in {"SGOV", "TQQQ", "SPLG"}
           /\ (r = "SGOV" <=> close * MaWindow200 < TqMaSum)
           /\ (r = "TQQQ" <=> /\ close * MaWindow200 >= TqMaSum
                              /\ close * MaWindow200 * 10 < TqMaSum * 11)
           /\ (r = "SPLG" <=> close * MaWindow200 * 10 >= TqMaSum * 11)

\* A close strictly between the moving average and the envelope: TQQQ.
C9_Witness ==
    /\ tq_pc = "done" /\ TqMaDefined
    /\ tq_in.base = 1000 /\ tq_in.last = 1100
    /\ tq_ret.recommendation = "TQQQ"

\* C10 as stated: with fewer than 200 bars analyze_tqqq issues none of the three
\* recommendations.
C10_InsufficientDataNoRecommendation ==
    (tq_pc = "done" /\ tq_in.fetch = "ok" /\ tq_in.n < MaWindow200) =>
        \/ tq_ret = NoneRec
        \/ tq_ret.recommendation \notin {"SGOV", "TQQQ", "SPLG"}

(***************************************************************************)
(* 3. The breakout screener: process_stock of potential_stock_finder.py.   *)
(***************************************************************************)
\* The bars tried beyond the longest moving average's window.
BkExtraBars == 1

MinBars == 100
VolumeMaWindow == 20
RecentBars == 5
MaWindow20 == 20
MaWindow60 == 60
MaWindow120 == 120
\* 2_000_000_000_000 won, in units of 10^9 won.
MarketCapCeiling == 2000
MinUpDays == 3

\* Series lengths: around the 100-bar minimum and around the 120-bar window.
BkLens == {MinBars - 1, MinBars, MaWindow120 - 1}
              \cup {MaWindow120 + k : k \in 0..BkExtraBars}

\* The close series is flat at level a until 60 bars before the end, at b for
\* the next 40 bars, at c for the next 15; the first of the last five bars
\* closes d0 away from that level and each later one moves by one of BkMoves
\* from the bar before it.
BkOldCloses == {8, 13}
BkMidCloses == {10, 13}
BkRecentCloses == {12}
BkFirstOffsets == {-4, 0, 1}
BkMoves == {-1, 0, 1}

\* The volume is base on every bar but at most one: bar (last - 5 + pos)
\* trades v.  With 19 bars at 10, v = 22 is above twice the 20-bar mean and
\* v = 21 is not; pos = 0 is the bar just before the last five.
BkVolumePatterns ==
    {[pos |-> p, v |-> v, base |-> 10] :
        <<p, v>> \in {<<0, 10>>, <<0, 22>>, <<1, 22>>, <<5, 21>>, <<5, 22>>}}

BkMarketCaps == {0, MarketCapCeiling, MarketCapCeiling + 1}
BkCodes == {"000660"}

BkNoSeries ==
    [n |-> 0, a |-> 0, b |-> 0, c |-> 0, d0 |-> 0, moves |-> <<>>,
     vol |-> [pos |-> 0, v |-> 0, base |-> 0]]

\* What process_stock meets: the module's start_date/end_date not set in the
\* worker; a price fetch that safe_stock_api_call gave up on (None) or that
\* returned an empty table; or a price table.
BkInputs ==
    {[code |-> c, marcap |-> m, dates |-> dt, fetch |-> f, series |-> BkNoSeries] :
        c \in BkCodes, m \in {0}, dt \in {FALSE}, f \in {"ok"}}
    \cup {[code |-> c, marcap |-> m, dates |-> dt, fetch |-> f, series |-> BkNoSeries] :
        c \in BkCodes, m \in {0}, dt \in {TRUE}, f \in {"none", "empty"}}
    \cup {[code |-> c, marcap |-> m, dates |-> TRUE, fetch |-> "ok",
           series |-> [n |-> n, a |-> a, b |-> b, c |-> rc, d0 |-> d0,
                       moves |-> mv, vol |-> vp]] :
        c \in BkCodes, m \in BkMarketCaps, n \in BkLens, a \in BkOldCloses,
        b \in BkMidCloses, rc \in BkRecentCloses, d0 \in BkFirstOffsets,
        mv \in [1..(RecentBars - 1) -> BkMoves], vp \in BkVolumePatterns}

\* The close column of the fetched table.
BkCloses(sr) ==
    [i \in 1..sr.n |->
        IF i <= sr.n - MaWindow60 THEN sr.a
        ELSE IF i <= sr.n - MaWindow20 THEN sr.b
        ELSE IF i <= sr.n - RecentBars THEN sr.c
        ELSE sr.c + sr.d0
                + SumRange(sr.moves, 1, i - (sr.n - RecentBars) - 1)]

\* The volume column of the fetched table.
BkVolumes(sr) ==
    [i \in 1..sr.n |-> IF i = sr.n - RecentBars + sr.vol.pos THEN sr.vol.v ELSE sr.vol.base]

\* (df.iloc[-5:][volume] > df.iloc[-5:][volume_ma20] * 2.0).any()
RecentVolumeSurge(volumes) ==
    \E i \in (Len(volumes) - RecentBars + 1)..Len(volumes) :
        FGt(Num(volumes[i]), FScale(RollingMeanAt(volumes, VolumeMaWindow, i), 2, 1))

\* (df.iloc[-5:][close].pct_change().dropna() > 0).sum(): the first of the five
\* bars has no change within the slice.
UpDays(closes) ==
    Cardinality({i \in (Len(closes) - RecentBars + 2)..Len(closes) : closes[i] > closes[i - 1]})

\* process_stock: the chain of early returns.
BreakoutProcessStock(in) ==
    IF ~in.dates THEN None
    ELSE IF in.fetch # "ok" THEN None
    ELSE LET closes == BkCloses(in.series)
             volumes == BkVolumes(in.series)
             close == Num(closes[Len(closes)])
             ma20 == RollingMean(closes, MaWindow20)
             ma60 == RollingMean(closes, MaWindow60)
             ma120 == RollingMean(closes, MaWindow120)
         IN IF Len(closes) < MinBars THEN None
            ELSE IF ~RecentVolumeSurge(volumes) THEN None
            ELSE IF FLe(ma20, ma60) THEN None
            ELSE IF FLe(ma60, ma120) THEN None
            ELSE IF FLe(close, ma20) THEN None
            ELSE IF in.marcap > MarketCapCeiling THEN None
            ELSE IF ~(UpDays(closes) >= MinUpDays) THEN None
            ELSE in.code

BkInit == bk_in \in BkInputs /\ bk_pc = "call" /\ bk_ret = None

\* A worker of the pool evaluates the instrument.
BkProcessStock ==
    /\ bk_pc = "call"
    /\ bk_ret' = BreakoutProcessStock(bk_in)
    /\ bk_pc' = "done"
    /\ UNCHANGED <<bk_in, rtVars, wvVars, tqVars, runVars>>

BkNext == BkProcessStock

InitBreakout == BkInit /\ RtIdle /\ WvIdle /\ TqIdle /\ RunIdle

SpecBreakout == InitBreakout /\ [][BkNext]_vars

\* The criteria of the breakout screener as the claim states them, on the
\* fetched series: a moving average exists only from its window's length on.
BkSum(s, w) == SumRange(s, Len(s) - w + 1, Len(s))
BkMa20AboveMa60(closes) ==
    /\ Len(closes) >= MaWindow60
    /\ BkSum(closes, MaWindow20) * MaWindow60 > BkSum(closes, MaWindow60) * MaWindow20
BkMa60AboveMa120(closes) ==
    /\ Len(closes) >= MaWindow120
    /\ BkSum(closes, MaWindow60) * MaWindow120 > BkSum(closes, MaWindow120) * MaWindow60
BkCloseAboveMa20(closes) ==
    /\ Len(closes) >= MaWindow20
    /\ closes[Len(closes)] * MaWindow20 > BkSum(closes, MaWindow20)
BkVolumeSurge(volumes) ==
    \E i \in (Len(volumes) - RecentBars + 1)..Len(volumes) :
        /\ i >= VolumeMaWindow
        /\ volumes[i] * VolumeMaWindow > 2 * SumRange(volumes, i - VolumeMaWindow + 1, i)
BkAllCriteria(in) ==
    LET closes == BkCloses(in.series)
    IN /\ BkVolumeSurge(BkVolumes(in.series))
       /\ BkMa20AboveMa60(closes)
       /\ BkMa60AboveMa120(closes)
       /\ BkCloseAboveMa20(closes)
       /\ in.marcap <= MarketCapCeiling
       /\ UpDays(closes) >= MinUpDays

\* C1 as stated: on a fetched series of at least 100 bars process_stock returns
\* the instrument's code if and only if every criterion holds (volume surge in
\* the last 5 bars, MA20 > MA60, MA60 > MA120, close > MA20, market cap not
\* above the ceiling, up-days), and None otherwise.
C1_HardAndGate ==
    (bk_pc = "done" /\ bk_in.dates /\ bk_in.fetch = "ok" /\ bk_in.series.n >= MinBars) =>
        /\ bk_ret \in {bk_in.code, None}
        /\ (bk_ret = bk_in.code <=> BkAllCriteria(bk_in))

\* The same gate on the series that fill the longest window: there the code
\* decides as the criteria say.
BkGateFromWindowOn ==
    (bk_pc = "done" /\ bk_in.dates /\ bk_in.fetch = "ok" /\ bk_in.series.n >= MaWindow120) =>
        /\ bk_ret \in {bk_in.code, None}
        /\ (bk_ret = bk_in.code <=> BkAllCriteria(bk_in))

\* An instrument was selected on a full window.
BkSelectedOnFullWindow ==
    bk_pc = "done" /\ bk_in.series.n >= MaWindow120 /\ bk_ret = bk_in.code

\* C15 as stated: a rolling-window criterion on fewer bars than its window
\* fails: process_stock returns None for every instrument with fewer than 120
\* bars, MA120 being undefined.
C15_ShortWindowFails ==
    (bk_pc = "done" /\ bk_in.dates /\ bk_in.fetch = "ok" /\ bk_in.series.n < MaWindow120) =>
        bk_ret = None

(***************************************************************************)
(* 4. The wave screener: process_stock of wave_analysis.py.                *)
(*                                                                         *)
(* The indicator functions each catch their own exceptions and hand        *)
(* process_stock booleans (and the RSI value, and the wave dictionary or   *)
(* None).  The evaluation is modelled from those outcomes on.              *)
(***************************************************************************)
MinWeeks == 52
\* 300_000_000_000 won, in units of 10^9 won.
MarketCapFloor == 300
RsiOversold == 30
WeightFib == 3
WeightBollinger == 2
WeightRsi == 3
WeightMacdCross == 2
WeightMacdHist == 1
WeightObv == 1
WeightVolume == 1
WeightMa240 == 1
WeightMarcap == 1
MinScore == 7

WvCodes == {"005930"}
WvMarketCaps == {MarketCapFloor - 1, MarketCapFloor}

\* calculate_rsi's current_rsi and rsi_rising: None and False when the
\* computation raised, else the RSI of the last bar and whether the last
\* three values rise.
WvRsiOutcomes ==
    {[kind |-> "None", v |-> 0, rising |-> FALSE]}
    \cup [kind : {"num"}, v : {20, 50}, rising : BOOLEAN]

\* identify_wave_pattern's return value: None, or the dictionary with
\* in_fib_zone and recent_rebound.
WvWaveOutcomes ==
    {NoneRec} \cup [kind : {"wave"}, in_fib_zone : BOOLEAN, recent_rebound : BOOLEAN]

WvNoIndicators ==
    [rsi |-> [kind |-> "None", v |-> 0, rising |-> FALSE], wave |-> NoneRec,
     bollinger |-> FALSE, obv |-> FALSE, macd_hist |-> FALSE, macd_cross |-> FALSE,
     ma240 |-> FALSE, vol_decrease |-> FALSE]

\* What process_stock meets: end_date not set in the worker (the subtraction
\* in its first line raises), weekly data of no bar or of fewer than 52, or
\* 52 weekly bars and more with the outcomes of the indicators on them.
WvInputs ==
    {[code |-> c, marcap |-> m, dates |-> FALSE, weeks |-> MinWeeks, ind |-> WvNoIndicators] :
        c \in WvCodes, m \in WvMarketCaps}
    \cup {[code |-> c, marcap |-> m, dates |-> TRUE, weeks |-> w, ind |-> WvNoIndicators] :
        c \in WvCodes, m \in WvMarketCaps, w \in {0, MinWeeks - 1}}
    \cup {[code |-> c, marcap |-> m, dates |-> TRUE, weeks |-> MinWeeks, ind |-> i] :
        c \in WvCodes, m \in WvMarketCaps,
        i \in [rsi : WvRsiOutcomes, wave : WvWaveOutcomes, bollinger : BOOLEAN,
               obv : BOOLEAN, macd_hist : BOOLEAN, macd_cross : BOOLEAN,
               ma240 : BOOLEAN, vol_decrease : BOOLEAN]}

\* check_market_cap
WaveCheckMarketCap(marcap) == marcap >= MarketCapFloor

\* oversold = current_rsi < 30
Oversold(rsi) == rsi.kind = "num" /\ rsi.v < RsiOversold

\* pass_fib = wave_data is not None and in_fib_zone and recent_rebound
PassFib(wave) == wave # NoneRec /\ wave.in_fib_zone /\ wave.recent_rebound

Points(passed, weight) == IF passed THEN weight ELSE 0

\* A score that gives the Fibonacci points for the zone alone.
WaveScoreFibIgnoresRebound(in) ==
      Points(in.ind.wave # NoneRec /\ in.ind.wave.in_fib_zone, WeightFib)
    + Points(in.ind.bollinger, WeightBollinger)
    + Points(Oversold(in.ind.rsi) /\ in.ind.rsi.rising, WeightRsi)
    + Points(in.ind.macd_cross, WeightMacdCross)
    + Points(in.ind.macd_hist, WeightMacdHist)
    + Points(in.ind.obv, WeightObv)
    + Points(in.ind.vol_decrease, WeightVolume)
    + Points(in.ind.ma240, WeightMa240)
    + Points(WaveCheckMarketCap(in.marcap), WeightMarcap)

\* The score process_stock adds up.
WaveScore(in) ==
      Points(PassFib(in.ind.wave), WeightFib)
    + Points(in.ind.bollinger, WeightBollinger)
    + Points(Oversold(in.ind.rsi) /\ in.ind.rsi.rising, WeightRsi)
    + Points(in.ind.macd_cross, WeightMacdCross)
    + Points(in.ind.macd_hist, WeightMacdHist)
    + Points(in.ind.obv, WeightObv)
    + Points(in.ind.vol_decrease, WeightVolume)
    + Points(in.ind.ma240, WeightMa240)
    + Points(WaveCheckMarketCap(in.marcap), WeightMarcap)

\* A threshold that leaves out a score of exactly 7.
WaveSelectedStrict(score) == score > MinScore

\* if score >= 7
WaveSelected(score) == score >= MinScore

\* process_stock: None, or the result dictionary.
WaveProcessStock(in) ==
    IF ~in.dates THEN NoneRec
    ELSE IF in.weeks = 0 \/ in.weeks < MinWeeks THEN NoneRec
    ELSE LET score == WaveScore(in)
             wave_data == in.ind.wave
         IN IF WaveSelected(score)
            THEN [kind |-> "result",
                  code |-> in.code,
                  score |-> score,
                  rsi |-> [kind |-> in.ind.rsi.kind, v |-> in.ind.rsi.v],
                  fib_zone |-> IF wave_data # NoneRec THEN wave_data.in_fib_zone ELSE FALSE,
                  fib_data |-> wave_data,
                  bollinger_low |-> in.ind.bollinger,
                  macd_cross |-> in.ind.macd_cross,
                  obv_rising |-> in.ind.obv,
                  rebound |-> IF wave_data # NoneRec THEN wave_data.recent_rebound ELSE FALSE,
                  vol_trend |-> in.ind.vol_decrease]
            ELSE NoneRec

\* A worker evaluates the next instrument of the pool's input.
WvProcessStock ==
    /\ wv_in = NoneRec
    /\ \E in \in WvInputs :
          /\ wv_in' = in
          /\ wv_ret' = WaveProcessStock(in)
    /\ UNCHANGED <<wv_prev, rtVars, bkVars, tqVars, runVars>>

\* The pool hands the worker's return value over (imap), and the worker is
\* free for the next instrument.
WvCollect ==
    /\ wv_in # NoneRec
    /\ wv_prev' = wv_ret
    /\ wv_in' = NoneRec
    /\ wv_ret' = NoneRec
    /\ UNCHANGED <<rtVars, bkVars, tqVars, runVars>>

WvNext == WvProcessStock \/ WvCollect

InitWave == WvIdle /\ RtIdle /\ BkIdle /\ TqIdle /\ RunIdle

SpecWave == InitWave /\ [][WvNext]_vars

\* The last evaluation got as far as the score.
WvScored == wv_in # NoneRec /\ wv_in.dates /\ wv_in.weeks >= MinWeeks

\* The sum of the documented weights of the criteria that passed.
DocumentedScore(in) ==
      (IF in.ind.wave # NoneRec /\ in.ind.wave.in_fib_zone /\ in.ind.wave.recent_rebound
       THEN 3 ELSE 0)
    + (IF in.ind.rsi.kind = "num" /\ in.ind.rsi.v < 30 /\ in.ind.rsi.rising THEN 3 ELSE 0)
    + (IF in.ind.bollinger THEN 2 ELSE 0)
    + (IF in.ind.macd_cross THEN 2 ELSE 0)
    + (IF in.ind.macd_hist THEN 1 ELSE 0)
    + (IF in.ind.obv THEN 1 ELSE 0)
    + (IF in.ind.vol_decrease THEN 1 ELSE 0)
    + (IF in.ind.ma240 THEN 1 ELSE 0)
    + (IF in.marcap >= MarketCapFloor THEN 1 ELSE 0)

\* C2: process_stock returns a result if and only if the sum of the documented
\* weights of the criteria that passed is at least 7, and the result's score
\* field is that sum.
C2_ScoreThreshold ==
    WvScored =>
        /\ (wv_ret # NoneRec <=> DocumentedScore(wv_in) >= 7)
        /\ (wv_ret # NoneRec => wv_ret.score = DocumentedScore(wv_in))

\* An instrument scoring exactly 7 was returned with score 7, and the one
\* evaluated after it scored 6 and got None.
C2_Witness ==
    /\ wv_prev # NoneRec /\ wv_prev.score = 7
    /\ WvScored /\ DocumentedScore(wv_in) = 6 /\ wv_ret = NoneRec

\* All nine criteria passed.
AllNinePassed(in) ==
    /\ PassFib(in.ind.wave) /\ Oversold(in.ind.rsi) /\ in.ind.rsi.rising
    /\ in.ind.bollinger /\ in.ind.macd_cross /\ in.ind.macd_hist /\ in.ind.obv
    /\ in.ind.vol_decrease /\ in.ind.ma240 /\ WaveCheckMarketCap(in.marcap)

\* C3 as stated: the score is out of 14: it lies in 0..14, and an instrument
\* passing all nine criteria scores 14.
C3_ScoreOutOf14 ==
    (WvScored /\ wv_ret # NoneRec) =>
        /\ wv_ret.score \in 0..14
        /\ (AllNinePassed(wv_in) => wv_ret.score = 14)

\* The criterion flags a result stores.
StoredFlags(r) ==
    <<r.fib_zone, r.rebound, r.bollinger_low, r.macd_cross, r.obv_rising, r.vol_trend>>

\* C4 as stated: two results with identical stored flags have the same score.
C4_ScoreFromStoredFlags ==
    (wv_ret # NoneRec /\ wv_prev # NoneRec /\ StoredFlags(wv_ret) = StoredFlags(wv_prev)) =>
        wv_ret.score = wv_prev.score

\* The points the stored flags account for, and the points of the criteria
\* whose outcome the result does not store.
StoredWeight(r) ==
      (IF r.fib_zone /\ r.rebound THEN 3 ELSE 0)
    + (IF r.bollinger_low THEN 2 ELSE 0)
    + (IF r.macd_cross THEN 2 ELSE 0)
    + (IF r.obv_rising THEN 1 ELSE 0)
    + (IF r.vol_trend THEN 1 ELSE 0)
UnstoredWeight(in) ==
      (IF in.ind.rsi.kind = "num" /\ in.ind.rsi.v < 30 /\ in.ind.rsi.rising THEN 3 ELSE 0)
    + (IF in.ind.macd_hist THEN 1 ELSE 0)
    + (IF in.ind.ma240 THEN 1 ELSE 0)
    + (IF in.marcap >= MarketCapFloor THEN 1 ELSE 0)

\* C4 amended: the score of a returned result is the points of its stored
\* flags (3 for fib_zone and rebound, 2 bollinger_low, 2 macd_cross, 1
\* obv_rising, 1 vol_trend) plus the points of the four criteria it does not
\* store (RSI oversold and rising 3, MACD histogram rising 1, MA240 band 1,
\* market-cap floor 1); so two results with identical stored flags have scores
\* of at least 7 that differ by at most 6.
C4_ScoreFromStoredAndUnstored ==
    /\ (WvScored /\ wv_ret # NoneRec) =>
          /\ wv_ret.score = StoredWeight(wv_ret) + UnstoredWeight(wv_in)
          /\ wv_ret.score >= 7
    /\ (wv_ret # NoneRec /\ wv_prev # NoneRec /\ StoredFlags(wv_ret) = StoredFlags(wv_prev)) =>
          /\ wv_ret.score - wv_prev.score <= 6
          /\ wv_prev.score - wv_ret.score <= 6

\* Two results with the same stored flags and different scores.
C4_Witness ==
    /\ wv_ret # NoneRec /\ wv_prev # NoneRec
    /\ StoredFlags(wv_ret) = StoredFlags(wv_prev)
    /\ wv_ret.score = wv_prev.score + 6

(***************************************************************************)
(* Claims about the retry wrappers.                                        *)
(***************************************************************************)
NumCalls == Cardinality({i \in DOMAIN rt_trace : rt_trace[i].ev = "call"})
NumSleeps == Cardinality({i \in DOMAIN rt_trace : rt_trace[i].ev = "sleep"})

\* The position in the trace of the c-th call of func.
CallPos(c) ==
    CHOOSE i \in DOMAIN rt_trace :
        /\ rt_trace[i].ev = "call"
        /\ Cardinality({j \in 1..i : rt_trace[j].ev = "call"}) = c

\* For safe_stock_api_call an attempt fails when func returns None or raises.
Fails(o) == o \in {"none", "json", "exc"}

\* k: the number of consecutive failing attempts before the first success in
\* the upstream's behaviour (the whole script when no call of it succeeds).
FailuresBeforeSuccess ==
    IF \A i \in DOMAIN rt_script : Fails(rt_script[i])
    THEN Len(rt_script)
    ELSE (CHOOSE i \in DOMAIN rt_script :
              /\ ~Fails(rt_script[i])
              /\ \A j \in 1..(i - 1) : Fails(rt_script[j])) - 1

\* C5: safe_stock_api_call(func, retries=N) calls func exactly min(k+1, N)
\* times, k being the number of failing attempts before the first success; it
\* returns the first successful call's value when k < N and None after N calls
\* otherwise, whatever the kinds of the failures.
C5_CallCount ==
    (rt_fn = "stock_api" /\ rt_pc = "done") =>
        LET k == FailuresBeforeSuccess
        IN /\ NumCalls = Min(k + 1, rt_retries)
           /\ (k < rt_retries => rt_ret = Table(rt_script[k + 1], k + 1))
           /\ (k >= rt_retries => rt_ret = NoneRec)

\* A run that failed in three different ways and then succeeded.
C5_Witness ==
    /\ rt_fn = "stock_api" /\ rt_pc = "done"
    /\ rt_retries = 3
    /\ SubSeq(rt_script, 1, 3) = <<"json", "none", "table">>
    /\ NumCalls = 3
    /\ rt_ret = Table("table", 3)

\* C6 as stated: the sleeps of safe_stock_api_call are one fewer than its calls
\* of func, none follows the final attempt, and each lasts delay, or 2*delay
\* after a JSON decode error.
C6_SleepsBetweenAttempts ==
    (rt_fn = "stock_api" /\ rt_pc = "done" /\ NumCalls >= 1) =>
        /\ NumSleeps = NumCalls - 1
        /\ rt_trace[Len(rt_trace)].ev = "call"
        /\ \A c \in 1..NumCalls :
              LET p == CallPos(c)
              IN (p < Len(rt_trace) /\ rt_trace[p + 1].ev = "sleep") =>
                    rt_trace[p + 1].d =
                        IF rt_script[c] = "json" THEN 2 * rt_delay ELSE rt_delay

\* C7: no exception of the upstream leaves safe_stock_api_call, and the wrapper
\* ends by returning a non-None result or None.
C7_NoExceptionPropagates ==
    /\ [](rt_fn = "stock_api" => rt_pc # "raised")
    /\ (rt_fn = "stock_api") ~>
          (rt_pc = "done" /\ (rt_ret = NoneRec \/ rt_ret.kind \in {"table", "empty"}))

\* Every attempt raised, JSON decode errors and other exceptions mixed, and the
\* wrapper returned None.
C7_Witness ==
    /\ rt_fn = "stock_api" /\ rt_pc = "done"
    /\ rt_retries = 3
    /\ SubSeq(rt_script, 1, 3) = <<"exc", "json", "exc">>
    /\ NumCalls = 3
    /\ rt_ret = NoneRec

\* The c-th call of func returned an empty table and the wrapper returned that
\* table at once: no later call, no sleep.
EmptyReturnedAtOnce(c) ==
    /\ rt_pc = "done"
    /\ rt_ret = Table("empty", c)
    /\ NumCalls = c
    /\ rt_trace[Len(rt_trace)].ev = "call"

\* C8 as stated: both wrappers return an empty table on the attempt that got
\* it, with no further call of the upstream and no sleep.
C8_EmptyIsValidBoth ==
    \A c \in 1..NumCalls : rt_script[c] = "empty" => EmptyReturnedAtOnce(c)

\* C8 amended: safe_stock_api_call returns an empty table on the attempt that
\* got it, with no further call and no sleep; safe_data_fetch does not return
\* it: it does not sleep, calls the upstream again while attempts remain, and
\* returns None when its attempts run out.
C8_EmptyIsValidStockApiOnly ==
    \A c \in 1..NumCalls : rt_script[c] = "empty" =>
        IF rt_fn = "stock_api"
        THEN EmptyReturnedAtOnce(c)
        ELSE /\ rt_ret # Table("empty", c)
             /\ ~(CallPos(c) < Len(rt_trace) /\ rt_trace[CallPos(c) + 1].ev = "sleep")
             /\ (rt_pc = "done" /\ NumCalls = c) => (c = rt_retries /\ rt_ret = NoneRec)
             /\ (rt_pc = "loop" /\ NumCalls = c) => rt_attempt = c

\* safe_data_fetch got an empty table from its first call, called the upstream
\* again without sleeping and returned the second call's table.
C8_Witness ==
    /\ rt_fn = "data_fetch" /\ rt_pc = "done"
    /\ rt_script[1] = "empty"
    /\ NumCalls = 2 /\ NumSleeps = 0
    /\ rt_ret = Table("table", 2)

(***************************************************************************)
(* 5. One run of run_analysis of an equity screener.                       *)
(*                                                                         *)
(* rn is a record: kind ("breakout" or "wave"), pc (where run_analysis     *)
(* is), ufetch (what the fetch of the instrument list gave: "list",        *)
(* "None" or "raise"), universe / look (the instrument list and what the   *)
(* name lookup of the filter gave for each entry), filtered, capfetch and  *)
(* tasks (the (code, market cap) pairs given to the pool), names           *)
(* (breakout: whether the second name lookup gave a name), pool (whether   *)
(* the pool was created), fork (whether the workers inherit                *)
(* the module's start_date/end_date), data (what the provider returns to   *)
(* the worker for each task), next / running / results / done (the pool:   *)
(* the next task to hand out, the tasks in flight, each task's result and  *)
(* the order of completion), selected, saves (calls of save_to_database),  *)
(* writes (calls of save_stock_data), sent (the notifications, in order),  *)
(* ret (the return value) and aborted (an error path was taken).           *)
(***************************************************************************)
\* The largest instrument list tried, and the pool's size.
MaxUniverse == 2
NumWorkers == 2

RunKinds == {"breakout", "wave"}

\* Ordinary codes, and a code with a preferred-share suffix.
AllCodes == <<"000660", "005930", "035720", "051910">>
RejectedCodes == {"005935", "000667", "000669", "430010"}

\* The last character and the first two characters of a code.
LastChar(code) ==
    CASE code = "005935" -> "5"
      [] code = "000667" -> "7"
      [] code = "000669" -> "9"
      [] OTHER -> "0"
FirstTwo(code) ==
    CASE code = "430010" -> "43"
      [] code = "035720" -> "03"
      [] code = "051910" -> "05"
      [] OTHER -> "00"

UniverseLists ==
    {SubSeq(AllCodes, 1, n) : n \in 0..MaxUniverse}
    \cup {<<"005935">> \o SubSeq(AllCodes, 1, n) : n \in 1..(MaxUniverse - 1)}
    \cup {<<x, AllCodes[1]>> : x \in RejectedCodes}

\* stock.get_market_ticker_list: a list, None, or an exception.
UniverseOutcomes ==
    {[kind |-> "list", list |-> u] : u \in UniverseLists} \cup {NoneRec, [kind |-> "raise"]}

\* stock.get_market_ticker_name in the filter: an ordinary name, a name with
\* the preferred-share or SPAC mark, or a failure of the call.
LookOutcomes == {"ordinary", "marked", "fail"}

\* stock.get_market_cap_by_date: a table, an empty table, or a failure.
CapOutcomes == {"ok", "empty", "fail"}

\* The market capitalisation the provider reports when it reports one.
RunFetchedCap == MarketCapFloor

\* not code.endswith(('5', '7', '9')) and not code.startswith('43'), on the
\* codes above.
CodeExcluded(code) == LastChar(code) \in {"5", "7", "9"} \/ FirstTwo(code) = "43"

\* The filter's condition, given the name lookup's outcome.
FilterKeeps(code, look) == look = "ordinary" /\ ~CodeExcluded(code)

RECURSIVE FilterStocks(_, _)
FilterStocks(universe, look) ==
    IF universe = <<>> THEN <<>>
    ELSE LET rest == FilterStocks(Tail(universe), Tail(look))
         IN IF FilterKeeps(Head(universe), Head(look))
            THEN <<Head(universe)>> \o rest ELSE rest

\* marcap_dict.get(code, 0)
CapOf(capfetch) == IF capfetch = "ok" THEN RunFetchedCap ELSE 0

\* What the provider returns to a worker of the breakout screener: 120 bars
\* on which every price criterion holds, 120 bars with MA60 below MA120, or a
\* table on which the computation raises (a missing column).
RunBkSeries(old) ==
    [n |-> MaWindow120, a |-> old, b |-> 10, c |-> 12, d0 |-> -4,
     moves |-> [i \in 1..(RecentBars - 1) |-> 1], vol |-> [pos |-> 1, v |-> 22, base |-> 10]]
RunBkData ==
    {[raises |-> FALSE, series |-> RunBkSeries(8)],
     [raises |-> FALSE, series |-> RunBkSeries(13)],
     [raises |-> TRUE, series |-> BkNoSeries]}

\* What the indicators give a worker of the wave screener: criteria worth 7
\* points without the market-cap point, criteria worth 6, or a computation
\* that raises.
RunWvIndicators(hist) ==
    [rsi |-> [kind |-> "num", v |-> 20, rising |-> TRUE],
     wave |-> [kind |-> "wave", in_fib_zone |-> TRUE, recent_rebound |-> TRUE],
     bollinger |-> FALSE, obv |-> FALSE, macd_hist |-> hist, macd_cross |-> FALSE,
     ma240 |-> FALSE, vol_decrease |-> FALSE]
RunWvData ==
    {[raises |-> FALSE, ind |-> RunWvIndicators(TRUE)],
     [raises |-> FALSE, ind |-> RunWvIndicators(FALSE)],
     [raises |-> TRUE, ind |-> WvNoIndicators]}

RunData(kind) == IF kind = "breakout" THEN RunBkData ELSE RunWvData

Pending == [kind |-> "pending"]
Raised == [kind |-> "raise"]

\* The body of process_stock's try block on a task: its return value, or the
\* exception it raises.
ProcessStockBody(kind, task, d, fork) ==
    IF kind = "breakout"
    THEN IF ~fork THEN NoneRec
         ELSE IF d.raises THEN Raised
         ELSE LET r == BreakoutProcessStock(
                          [code |-> task.code, marcap |-> task.marcap, dates |-> TRUE,
                           fetch |-> "ok", series |-> d.series])
              IN IF r = None THEN NoneRec ELSE [kind |-> "code", code |-> r]
    ELSE IF ~fork \/ d.raises THEN Raised
         ELSE WaveProcessStock(
                  [code |-> task.code, marcap |-> task.marcap, dates |-> TRUE,
                   weeks |-> MinWeeks, ind |-> d.ind])

\* A process_stock without its except clause.
ProcessStockNoCatch(r) == r

\* except Exception: log and return None.
ProcessStockCatch(r) == IF r = Raised THEN NoneRec ELSE r

\* What the worker sends back for a task.
WorkerResult(kind, task, d, fork) == ProcessStockCatch(ProcessStockBody(kind, task, d, fork))

\* run_analysis was called.
RunStart(kind) ==
    [kind |-> kind, pc |-> "start", ufetch |-> "None", universe |-> <<>>, look |-> <<>>,
     filtered |-> <<>>, capfetch |-> <<>>, tasks |-> <<>>, names |-> <<>>,
     pool |-> FALSE, fork |-> TRUE, data |-> <<>>,
     next |-> 1, running |-> {}, results |-> <<>>, done |-> <<>>, selected |-> <<>>,
     saves |-> 0, writes |-> 0, sent |-> <<>>, ret |-> NoneRec, aborted |-> FALSE]

\* send_telegram_message(message, is_kospi=True): it returns whether the
\* message was delivered and never raises.
Send(r, msg, delivered) == [r EXCEPT !.sent = Append(@, [msg |-> msg, delivered |-> delivered])]

\* The error paths of run_analysis: an error notification, and the empty
\* result.
Abort(r, delivered) ==
    [Send(r, "error", delivered) EXCEPT
        !.pc = "done", !.ret = [kind |-> "ret", stocks |-> <<>>], !.aborted = TRUE]

\* A run that takes a list it could not fetch for an empty one.
UniverseFailedNever(kind, o) == FALSE

\* Whether run_analysis gives up after the fetch of the instrument list.  The
\* breakout screener fetches it through safe_stock_api_call (an exception
\* becomes None) and gives up on None and on an empty list ("if not
\* all_stocks"); the wave screener calls the provider directly: an exception
\* reaches its except clause, and so does the TypeError of iterating over None.
UniverseFailed(kind, o) ==
    IF kind = "breakout" THEN o.kind # "list" \/ o.list = <<>> ELSE o.kind # "list"

\* The fetch of the instrument list.
FetchUniverse ==
    /\ rn.pc = "start"
    /\ \E o \in UniverseOutcomes, delivered \in BOOLEAN :
          rn' = IF UniverseFailed(rn.kind, o)
                THEN [Abort(rn, delivered) EXCEPT !.ufetch = o.kind]
                ELSE [rn EXCEPT !.pc = "filter", !.ufetch = o.kind,
                                !.universe = IF o.kind = "list" THEN o.list ELSE <<>>]
    /\ UNCHANGED <<rtVars, bkVars, wvVars, tqVars, mn, ix>>

\* The filter loop.  A failed name lookup is None in the breakout screener
\* (the instrument is skipped) and an exception in the wave screener.
FilterLoop ==
    /\ rn.pc = "filter"
    /\ \E look \in [1..Len(rn.universe) -> LookOutcomes], delivered \in BOOLEAN :
          rn' = IF rn.kind = "wave" /\ \E i \in DOMAIN look : look[i] = "fail"
                THEN [Abort(rn, delivered) EXCEPT !.look = look]
                ELSE [rn EXCEPT !.pc = "marcap", !.look = look,
                                !.filtered = FilterStocks(rn.universe, look)]
    /\ UNCHANGED <<rtVars, bkVars, wvVars, tqVars, mn, ix>>

\* The market-cap loop, and the list of (code, market cap) pairs.  The breakout
\* screener's fetch goes through safe_stock_api_call inside a try block; the
\* wave screener's is a direct call.
MarcapLoop ==
    /\ rn.pc = "marcap"
    /\ \E cf \in [1..Len(rn.filtered) -> CapOutcomes], delivered \in BOOLEAN :
          rn' = IF rn.kind = "wave" /\ \E i \in DOMAIN cf : cf[i] = "fail"
                THEN [Abort(rn, delivered) EXCEPT !.capfetch = cf]
                ELSE [rn EXCEPT
                        !.pc = IF rn.kind = "breakout" THEN "names" ELSE "pool",
                        !.capfetch = cf,
                        !.tasks = [i \in 1..Len(rn.filtered) |->
                                      [code |-> rn.filtered[i], marcap |-> CapOf(cf[i])]]]
    /\ UNCHANGED <<rtVars, bkVars, wvVars, tqVars, mn, ix>>

\* The name lookups of the code_to_name loop (through safe_stock_api_call):
\* the provider answers all of them, or none of them.
NameOutcomes(n) == {[i \in 1..n |-> b] : b \in BOOLEAN}

\* The breakout screener's code_to_name loop.
NamesLoop ==
    /\ rn.pc = "names"
    /\ \E nm \in NameOutcomes(Len(rn.filtered)) :
          rn' = [rn EXCEPT !.pc = "pool", !.names = nm]
    /\ UNCHANGED <<rtVars, bkVars, wvVars, tqVars, mn, ix>>

\* with Pool(...) as p: p.imap(process_stock, tasks)
PoolStart ==
    /\ rn.pc = "pool"
    /\ \E fork \in BOOLEAN :
          rn' = [rn EXCEPT !.pc = "imap", !.pool = TRUE, !.fork = fork,
                           !.results = [i \in 1..Len(rn.tasks) |-> Pending],
                           !.data = [i \in 1..Len(rn.tasks) |-> NoneRec]]
    /\ UNCHANGED <<rtVars, bkVars, wvVars, tqVars, mn, ix>>

\* A free worker takes the next task; the provider's answer for it is fixed
\* from here on.
WorkerStart ==
    /\ rn.pc = "imap"
    /\ rn.next <= Len(rn.tasks)
    /\ Cardinality(rn.running) < NumWorkers
    /\ \E d \in RunData(rn.kind) :
          rn' = [rn EXCEPT !.data[rn.next] = d, !.running = @ \cup {rn.next},
                           !.next = @ + 1]
    /\ UNCHANGED <<rtVars, bkVars, wvVars, tqVars, mn, ix>>

\* A worker finishes its task and sends the result back.
WorkerFinish ==
    /\ rn.pc = "imap"
    /\ \E i \in rn.running :
          rn' = [rn EXCEPT
                   !.results[i] = WorkerResult(rn.kind, rn.tasks[i], rn.data[i], rn.fork),
                   !.running = @ \ {i},
                   !.done = Append(@, i)]
    /\ UNCHANGED <<rtVars, bkVars, wvVars, tqVars, mn, ix>>

\* A list() that stops waiting one result early.
ImapExhaustedEarly(n, results) == \A i \in 1..(n - 1) : results[i] # Pending

\* list(p.imap(...)) returns when every task's result has arrived.
ImapExhausted(n, results) == \A i \in 1..n : results[i] # Pending

\* imap_unordered: the results in the order of completion.
ImapUnordered(results, done) == [k \in 1..Len(done) |-> results[done[k]]]

\* imap: the results in the order of the tasks, whatever the order in which
\* the workers finished.
ImapResults(results, done) == results

\* [result for result in results if result]
Truthy(r) == r.kind \notin {"None", "pending"}

\* The parent has the results: the pool is closed and the selection made.  A
\* result that is an exception is raised again in the parent by imap.
Collect ==
    /\ rn.pc = "imap"
    /\ ImapExhausted(Len(rn.tasks), rn.results)
    /\ \E delivered \in BOOLEAN :
          LET results == ImapResults(rn.results, rn.done)
          IN rn' = IF \E k \in DOMAIN results : results[k] = Raised
                   THEN Abort(rn, delivered)
                   ELSE [rn EXCEPT !.pc = "save",
                                   !.selected = SelectSeq(results, LAMBDA r : Truthy(r))]
    /\ UNCHANGED <<rtVars, bkVars, wvVars, tqVars, mn, ix>>

\* The calls of save_stock_data one call of save_to_database makes.  The
\* breakout screener returns early on an empty selection and else writes one
\* table, unless a lookup before the write raised; the wave screener writes
\* the KOSPI rows and the KOSDAQ rows when there are any, unless a lookup in
\* its loop raised.  o gives, for each selected instrument, its market, "skip"
\* (no price rows) or "raise".
StoreWrites(kind, o) ==
    IF \E i \in DOMAIN o : o[i] = "raise" THEN 0
    ELSE IF kind = "breakout" THEN (IF o = <<>> THEN 0 ELSE 1)
    ELSE Cardinality({o[i] : i \in DOMAIN o} \cap {"KOSPI", "KOSDAQ"})

\* save_to_database: it catches every exception and returns a boolean, which
\* run_analysis only logs.
Save ==
    /\ rn.pc = "save"
    /\ \E o \in [1..Len(rn.selected) -> {"KOSPI", "KOSDAQ", "skip", "raise"}] :
          rn' = [rn EXCEPT !.pc = "notify", !.saves = @ + 1,
                           !.writes = @ + StoreWrites(rn.kind, o)]
    /\ UNCHANGED <<rtVars, bkVars, wvVars, tqVars, mn, ix>>

\* A formatter that writes the list's heading for an empty selection too.
MessageKindAlwaysList(selected) == "list"

\* format_stock_message / format_wave_message: the none-found text for an
\* empty selection, else the list.
MessageKind(selected) == IF selected = <<>> THEN "none_found" ELSE "list"

\* code_to_name.get(code, "Unknown")
SelectedNames(r) ==
    [k \in 1..Len(r.selected) |->
        LET i == CHOOSE i \in DOMAIN r.filtered : r.filtered[i] = r.selected[k].code
        IN IF r.names[i] THEN "name" ELSE "Unknown"]

\* The message is formatted and sent, and run_analysis returns the selection.
\* format_stock_message catches the errors of its lookups per instrument;
\* format_wave_message looks the name and the market up outside its try
\* block, and an exception there reaches run_analysis's except clause.
Notify ==
    /\ rn.pc = "notify"
    /\ \E lookup \in {"ok", "raise"}, delivered \in BOOLEAN :
          rn' = IF rn.kind = "wave" /\ rn.selected # <<>> /\ lookup = "raise"
                THEN Abort(rn, delivered)
                ELSE [Send(rn, MessageKind(rn.selected), delivered) EXCEPT
                        !.pc = "done",
                        !.ret = IF rn.kind = "breakout"
                                THEN [kind |-> "ret", stocks |-> rn.selected,
                                      names |-> SelectedNames(rn)]
                                ELSE [kind |-> "ret", stocks |-> rn.selected]]
    /\ UNCHANGED <<rtVars, bkVars, wvVars, tqVars, mn, ix>>

RunInit ==
    /\ rn \in {RunStart(kind) : kind \in RunKinds}
    /\ mn = [pc |-> "idle"] /\ ix = [pc |-> "idle"]

RunNext ==
    \/ FetchUniverse \/ FilterLoop \/ MarcapLoop \/ NamesLoop
    \/ PoolStart \/ WorkerStart \/ WorkerFinish \/ Collect \/ Save \/ Notify

InitRun == RunInit /\ RtIdle /\ BkIdle /\ WvIdle /\ TqIdle

SpecRun == InitRun /\ [][RunNext]_vars

(***************************************************************************)
(* Claims about a run.                                                     *)
(***************************************************************************)
\* What process_stock returns for task i when it is evaluated on its own: the
\* value of its body on the task and on the provider's data for the task.
ResultAlone(i) == ProcessStockBody(rn.kind, rn.tasks[i], rn.data[i], rn.fork)

\* The tasks whose evaluation has finished.
RunFinished == {rn.done[k] : k \in DOMAIN rn.done}

\* The position of a code in the filtered list.
FilteredPos(code) == CHOOSE i \in DOMAIN rn.filtered : rn.filtered[i] = code

\* C11: while the pool runs and when its results are collected, an
\* instrument whose evaluation raised has the result None and every other
\* finished instrument has the result of its own evaluation, in whatever
\* order the workers run; the pool's phase is not aborted and the selection
\* is made of exactly the results that are not None.
C11_WorkerIsolation ==
    /\ rn.pc \in {"imap", "save"} =>
          \A i \in RunFinished :
              LET alone == ResultAlone(i)
              IN  rn.results[i] = IF alone = Raised THEN NoneRec ELSE alone
    /\ (rn.pool /\ rn.pc \in {"save", "notify", "done"}) =>
          /\ RunFinished = DOMAIN rn.tasks
          /\ rn.saves + (IF rn.pc = "save" THEN 1 ELSE 0) = 1
          /\ \A i \in DOMAIN rn.tasks :
                rn.results[i] # NoneRec =>
                    \E k \in DOMAIN rn.selected : rn.selected[k] = rn.results[i]
          /\ \A k \in DOMAIN rn.selected :
                \E i \in DOMAIN rn.tasks :
                    rn.selected[k] = rn.results[i] /\ rn.results[i] # NoneRec

\* The first instrument's evaluation raised after the second one's had
\* finished, and the second one was selected.
C11_Witness ==
    /\ rn.pc = "save"
    /\ Len(rn.tasks) = 2
    /\ rn.done = <<2, 1>>
    /\ rn.data[1].raises /\ rn.fork
    /\ rn.results[1] = NoneRec
    /\ Len(rn.selected) = 1 /\ rn.selected[1].code = rn.tasks[2].code

\* A per-instrument provider call failed before the pool: the name lookup of
\* the filter, or the market-cap fetch.
RunLookupFailed ==
    \/ \E i \in DOMAIN rn.look : rn.look[i] = "fail"
    \/ \E i \in DOMAIN rn.capfetch : rn.capfetch[i] = "fail"

\* C12 as stated: when a per-instrument provider call fails for an instrument,
\* the run is not aborted for it: the run reaches its evaluation phase, and
\* every instrument the filter keeps and whose own calls did not fail is
\* evaluated.
C12_InstrumentFailureDoesNotAbort ==
    (rn.pc = "done" /\ RunLookupFailed) =>
        /\ rn.pool
        /\ \A i \in DOMAIN rn.universe :
              FilterKeeps(rn.universe[i], rn.look[i]) =>
                  \E t \in RunFinished : rn.tasks[t].code = rn.universe[i]

\* The fetch of the instrument list failed definitively: None after the
\* retries, an exception, or (for the breakout screener, which takes it for a
\* failure) an empty list.
UniverseFetchFailed ==
    \/ rn.ufetch \in {"None", "raise"}
    \/ rn.kind = "breakout" /\ rn.ufetch = "list" /\ rn.universe = <<>>

\* C13: when the instrument list cannot be fetched the run is aborted: no
\* instrument is evaluated, no pool is created, nothing is written to the
\* store, exactly one error notification is sent and the result is empty.
C13_NoUniverseAborts ==
    (rn.pc # "start" /\ UniverseFetchFailed) =>
        /\ rn.pc = "done" /\ rn.aborted
        /\ ~rn.pool /\ rn.tasks = <<>> /\ rn.done = <<>> /\ rn.running = {}
        /\ rn.saves = 0 /\ rn.writes = 0
        /\ Len(rn.sent) = 1 /\ rn.sent[1].msg = "error"
        /\ rn.ret = [kind |-> "ret", stocks |-> <<>>]

\* The wave screener's provider raised on the fetch of the list.
C13_Witness ==
    /\ rn.kind = "wave" /\ rn.ufetch = "raise" /\ rn.pc = "done"
    /\ Len(rn.sent) = 1 /\ rn.sent[1].msg = "error"

\* C14 as stated: an instrument whose market cap could not be fetched is
\* evaluated with market cap 0, and then the breakout screener never selects
\* it and the wave screener gives it no market-cap point.
C14_MissingCapFailsCriterion ==
    \A i \in RunFinished :
        rn.capfetch[i] # "ok" =>
            /\ rn.tasks[i].marcap = 0
            /\ rn.kind = "breakout" => rn.results[i] = NoneRec
            /\ (rn.kind = "wave" /\ rn.results[i] # NoneRec) =>
                  rn.results[i].score + WeightMarcap =
                      WaveScore([marcap |-> MarketCapFloor, ind |-> rn.data[i].ind])

\* The evaluation phase completed: the selection was made and handed to
\* save_to_database.
RunEvaluated == rn.pool /\ (rn.pc = "notify" \/ (rn.pc = "done" /\ rn.saves > 0))

\* C16 as stated: whatever fails in persistence, formatting or delivery after
\* the evaluation, the run is not aborted and run_analysis returns exactly the
\* instruments the evaluation selected.
C16_ReportingFailureKeepsResults ==
    (rn.pc = "done" /\ RunEvaluated) =>
        /\ ~rn.aborted
        /\ rn.ret.stocks = rn.selected

\* C17 as stated: in a run that reaches the parallel phase the store and the
\* notification channel are each invoked exactly once, and only when no
\* evaluation is in flight.
C17_StoreAndNotifyOnce ==
    /\ (rn.pc = "done" /\ rn.pool) => (rn.writes = 1 /\ Len(rn.sent) = 1)
    /\ (rn.writes > 0 \/ rn.sent # <<>>) => rn.running = {}

\* C17 amended: save_to_database is called once and one notification is sent,
\* both after every evaluation has finished; save_to_database calls the
\* store's save_stock_data at most once in the breakout screener and at most
\* twice (KOSPI rows, KOSDAQ rows) in the wave screener, and not at all when
\* nothing was selected.
C17_StoreAndNotifyAfterJoin ==
    /\ (rn.pc = "done" /\ rn.pool) =>
          /\ rn.saves = 1 /\ Len(rn.sent) = 1
          /\ rn.writes <= (IF rn.kind = "breakout" THEN 1 ELSE 2)
          /\ rn.selected = <<>> => rn.writes = 0
    /\ (rn.saves > 0 \/ rn.writes > 0 \/ rn.sent # <<>>) =>
          /\ rn.running = {}
          /\ rn.pool => RunFinished = DOMAIN rn.tasks
    /\ rn.pc \in {"pool", "imap"} => (rn.saves = 0 /\ rn.writes = 0 /\ rn.sent = <<>>)

\* A wave run wrote both tables after two evaluations that finished out of
\* order.
C17_Witness ==
    /\ rn.kind = "wave" /\ rn.pc = "done" /\ rn.pool
    /\ rn.done = <<2, 1>>
    /\ rn.saves = 1 /\ rn.writes = 2 /\ Len(rn.sent) = 1

\* C18: the selection a run returns is in the order of the filtered list,
\* whatever the order in which the workers finished.
C18_SelectionKeepsInputOrder ==
    /\ \A k, l \in DOMAIN rn.selected :
          k < l => FilteredPos(rn.selected[k].code) < FilteredPos(rn.selected[l].code)
    /\ (rn.pc = "done" /\ ~rn.aborted) => rn.ret.stocks = rn.selected
    /\ (rn.pc = "done" /\ rn.aborted) => rn.ret.stocks = <<>>

\* The second instrument finished first, both were selected, and the first is
\* first in the returned list.
C18_Witness ==
    /\ rn.pc = "done" /\ rn.done = <<2, 1>>
    /\ Len(rn.ret.stocks) = 2
    /\ rn.ret.stocks[1].code = rn.filtered[1] /\ rn.ret.stocks[2].code = rn.filtered[2]

\* C19: a run that completes its evaluation with nothing selected sends
\* exactly one none-found notification, and a run that fails sends an error
\* notification; every run ends with exactly one notification, which is the
\* error one exactly when the run failed.
C19_NoneFoundOrError ==
    rn.pc = "done" =>
        /\ Len(rn.sent) = 1
        /\ rn.sent[1].msg = "error" <=> rn.aborted
        /\ rn.sent[1].msg = "none_found" <=> (~rn.aborted /\ rn.selected = <<>>)
        /\ rn.sent[1].msg = "list" <=> (~rn.aborted /\ rn.selected # <<>>)

\* Two instruments were evaluated, none qualified, and the none-found message
\* went out.
C19_Witness ==
    /\ rn.pc = "done" /\ ~rn.aborted
    /\ Len(rn.done) = 2 /\ rn.selected = <<>>
    /\ rn.sent = <<[msg |-> "none_found", delivered |-> TRUE]>>

(***************************************************************************)
(* 6. main.py: run_all and run_stock_analysis.  Each screener is called    *)
(* in its own try / except Exception block; mn.invoked lists the calls     *)
(* made, mn.logged the calls whose exception was logged.  The scheduler    *)
(* fires the jobs that setup_schedules registered.                         *)
(***************************************************************************)

Entries == {"run_all", "run_stock_analysis", "send_tqqq_alert"}

\* setup_schedules: the callables registered with schedule.every().day.
ScheduledJobs == {"send_tqqq_alert", "run_stock_analysis"}

Weekdays == 0 .. 6

\* datetime.weekday() of Saturday.
Saturday == 5

\* What a call of a screener does: it returns or it raises an Exception.
CallOutcomes == {"ok", "raise"}

\* The first statement of each entry point.
FirstStep(entry) ==
    CASE entry = "run_all" -> "tqqq"
      [] entry = "run_stock_analysis" -> "weekday"
      [] entry = "send_tqqq_alert" -> "job_tqqq"

MainStart(entry, day) ==
    [pc |-> FirstStep(entry), entry |-> entry, weekday |-> day,
     invoked |-> <<>>, logged |-> <<>>, propagated |-> FALSE]

\* A call without a try block around it: its exception leaves the caller.
ExceptNothing(o) == o = "raise"

\* try: <call> except Exception: logger.error(...).  TRUE when the
\* exception leaves the caller.
ExceptException(o) == FALSE

\* One guarded call of screener name, followed by the statement at next.
Invoke(name, o, next) ==
    LET called == [mn EXCEPT !.invoked = Append(@, name)]
    IN  IF ExceptException(o)
        THEN [called EXCEPT !.pc = "done", !.propagated = TRUE]
        ELSE [called EXCEPT !.pc = next,
                            !.logged = IF o = "raise" THEN Append(@, name) ELSE @]

\* run_stock_analysis: nothing runs on Saturday and Sunday.
WeekdayCheck ==
    /\ mn.pc = "weekday"
    /\ mn' = [mn EXCEPT !.pc = IF mn.weekday >= Saturday THEN "done" ELSE "breakout"]
    /\ UNCHANGED <<rtVars, bkVars, wvVars, tqVars, rn, ix>>

InvokeTqqq ==
    /\ mn.pc = "tqqq"
    /\ \E o \in CallOutcomes : mn' = Invoke("tqqq", o, "breakout")
    /\ UNCHANGED <<rtVars, bkVars, wvVars, tqVars, rn, ix>>

InvokeBreakout ==
    /\ mn.pc = "breakout"
    /\ \E o \in CallOutcomes : mn' = Invoke("breakout", o, "wave")
    /\ UNCHANGED <<rtVars, bkVars, wvVars, tqVars, rn, ix>>

InvokeWave ==
    /\ mn.pc = "wave"
    /\ \E o \in CallOutcomes : mn' = Invoke("wave", o, "done")
    /\ UNCHANGED <<rtVars, bkVars, wvVars, tqVars, rn, ix>>

\* The daily job of the trend alert: schedule.run_pending calls
\* send_tqqq_alert itself, inside run_scheduler's try block.
JobTqqq ==
    /\ mn.pc = "job_tqqq"
    /\ \E o \in CallOutcomes : mn' = Invoke("tqqq", o, "done")
    /\ UNCHANGED <<rtVars, bkVars, wvVars, tqVars, rn, ix>>

MainInit ==
    /\ mn \in {MainStart(entry, day) : entry \in Entries, day \in Weekdays}
    /\ rn = [pc |-> "idle"] /\ ix = [pc |-> "idle"]

MainNext == WeekdayCheck \/ InvokeTqqq \/ InvokeBreakout \/ InvokeWave \/ JobTqqq

InitMain == MainInit /\ RtIdle /\ BkIdle /\ WvIdle /\ TqIdle

SpecMain == InitMain /\ [][MainNext]_vars

\* C20: whichever screener raises, run_all calls the trend alert, the
\* breakout screener and the wave screener once each in that order, and
\* run_stock_analysis on a weekday calls the breakout and the wave screener;
\* no exception of a screener leaves either entry point.
C20_EveryScreenerInvoked ==
    mn.pc = "done" =>
        /\ ~mn.propagated
        /\ mn.entry = "run_all" => mn.invoked = <<"tqqq", "breakout", "wave">>
        /\ (mn.entry = "run_stock_analysis" /\ mn.weekday < Saturday) =>
               mn.invoked = <<"breakout", "wave">>
        /\ (mn.entry = "run_stock_analysis" /\ mn.weekday >= Saturday) =>
               mn.invoked = <<>>

\* run_all where the trend alert and the breakout screener both raised and
\* the wave screener still ran.
C20_Witness ==
    /\ mn.pc = "done" /\ mn.entry = "run_all"
    /\ mn.logged = <<"tqqq", "breakout">>
    /\ mn.invoked = <<"tqqq", "breakout", "wave">>

\* C21 as stated: a job the scheduler fires on a Saturday or a Sunday runs no
\* screener.
C21_ScheduledRunsWeekdayOnly ==
    (mn.pc = "done" /\ mn.entry \in ScheduledJobs /\ mn.weekday >= Saturday) =>
        mn.invoked = <<>>

\* The instrument at position i of the fetched list satisfies the eligibility
\* predicate and its name lookup succeeded.
RunEligible(i) == rn.look[i] = "ordinary" /\ ~CodeExcluded(rn.universe[i])

\* The positions of the task list that hold a code.
TasksOf(code) == {k \in DOMAIN rn.tasks : rn.tasks[k].code = code}

\* C22 as stated: every submitted instrument satisfies the eligibility
\* predicate, and every instrument of the fetched list that satisfies it and
\* whose name was looked up is submitted exactly once, with its market cap.
C22_ExactlyEligibleSubmitted ==
    /\ \A k \in DOMAIN rn.tasks :
          \E i \in DOMAIN rn.universe :
              rn.universe[i] = rn.tasks[k].code /\ RunEligible(i)
    /\ rn.pc = "done" =>
          \A i \in DOMAIN rn.look :
              RunEligible(i) =>
                  /\ rn.pool
                  /\ Cardinality(TasksOf(rn.universe[i])) = 1
                  /\ \A k \in TasksOf(rn.universe[i]) :
                        /\ rn.results[k] # Pending
                        /\ rn.tasks[k].marcap = CapOf(rn.capfetch[k])

\* The criteria of the breakout screener other than the up-days one.
BkOtherCriteria(in) ==
    LET closes == BkCloses(in.series)
    IN /\ BkVolumeSurge(BkVolumes(in.series))
       /\ BkMa20AboveMa60(closes)
       /\ BkMa60AboveMa120(closes)
       /\ BkCloseAboveMa20(closes)
       /\ in.marcap <= MarketCapCeiling

\* The up-days among the last five bars, each bar compared with the bar
\* before it, the oldest of the five included.
UpDaysOfFive(closes) ==
    Cardinality({i \in (Len(closes) - RecentBars + 1)..Len(closes) : closes[i] > closes[i - 1]})

\* C27 as stated: where every other criterion passes, the instrument is
\* selected if and only if at least 3 of the last 5 bars closed above the bar
\* before them.
C27_ThreeUpDaysOfFive ==
    (/\ bk_pc = "done" /\ bk_in.dates /\ bk_in.fetch = "ok"
     /\ bk_in.series.n >= MaWindow120 /\ BkOtherCriteria(bk_in)) =>
        (bk_ret = bk_in.code <=> UpDaysOfFive(BkCloses(bk_in.series)) >= MinUpDays)

(***************************************************************************)
(* 7. The indicator functions: calculate_obv, calculate_rsi and            *)
(* identify_wave_pattern of wave_analysis.py, check_ma_transition of       *)
(* potential_stock_finder.py.  ix.fn names the function called, ix.in its  *)
(* frame, ix.out what it returned.                                         *)
(***************************************************************************)
\* The longest drawn part of a frame given to calculate_obv.
MaxObvBars == 3

ObvMaWindow == 10

ObvCloses == {1, 2, 3}
ObvVolumes == {1, 2}

\* The frames start with lead bars that repeat the first drawn bar, so that
\* some of them fill the 10-bar window.
ObvLeads == {0, ObvMaWindow - 1}

\* df['obv'].iloc[i] = ... assigns through an intermediate Series.  Whether
\* the frame's column receives the value depends on the pandas the program
\* runs on: it does where df['obv'] is a view of the column, and it does not
\* under copy-on-write.
ChainedAssignment == {"view", "copy"}

ObvFrame(lead, closes, volumes) ==
    [closes |-> [i \in 1..lead |-> closes[1]] \o closes,
     volumes |-> [i \in 1..lead |-> volumes[1]] \o volumes]

ObvInputs ==
    {[frame |-> ObvFrame(lead, c, v), chained |-> ch] :
        lead \in ObvLeads, ch \in ChainedAssignment,
        <<c, v>> \in UNION {[1..n -> ObvCloses] \X [1..n -> ObvVolumes] : n \in 1..MaxObvBars}}

\* One chained assignment df['obv'].iloc[i] = v on the column obv.
AssignChained(obv, i, v, chained) == IF chained = "view" THEN [obv EXCEPT ![i] = v] ELSE obv

\* The loop of calculate_obv from bar i on (bars are numbered from 1 here).
RECURSIVE ObvLoop(_, _, _, _)
ObvLoop(obv, frame, i, chained) ==
    IF i > Len(frame.closes) THEN obv
    ELSE LET v == IF frame.closes[i] > frame.closes[i - 1]
                      THEN obv[i - 1] + frame.volumes[i]
                  ELSE IF frame.closes[i] < frame.closes[i - 1]
                      THEN obv[i - 1] - frame.volumes[i]
                  ELSE obv[i - 1]
         IN ObvLoop(AssignChained(obv, i, v, chained), frame, i + 1, chained)

\* calculate_obv: the obv column it leaves in the frame, and obv_rising.
CalculateObvOf(in) ==
    LET zero == [i \in 1..Len(in.frame.closes) |-> 0]
        first == AssignChained(zero, 1, in.frame.volumes[1], in.chained)
        obv == ObvLoop(first, in.frame, 2, in.chained)
        n == Len(obv)
    IN [obv |-> obv,
        obv_rising |-> FGt(Num(obv[n]), RollingMeanAt(obv, ObvMaWindow, n))]

IxCall(fn, in) == [fn |-> fn, pc |-> "call", in |-> in, out |-> NoneRec]

CalculateObv ==
    /\ ix.pc = "call" /\ ix.fn = "calculate_obv"
    /\ ix' = [ix EXCEPT !.pc = "done", !.out = CalculateObvOf(ix.in)]
    /\ UNCHANGED <<rtVars, bkVars, wvVars, tqVars, rn, mn>>

\* C23 as stated: OBV(0) is the first bar's volume, and each later OBV adds
\* the bar's volume on a higher close, subtracts it on a lower close and
\* holds on an equal close; on strictly rising closes OBV(t) is OBV(0) plus
\* the volumes of the bars 1..t.
C23_ObvRecurrence ==
    (ix.pc = "done" /\ ix.fn = "calculate_obv") =>
        LET c == ix.in.frame.closes
            v == ix.in.frame.volumes
            obv == ix.out.obv
        IN /\ obv[1] = v[1]
           /\ \A t \in 2..Len(c) :
                 obv[t] = IF c[t] > c[t - 1] THEN obv[t - 1] + v[t]
                          ELSE IF c[t] < c[t - 1] THEN obv[t - 1] - v[t]
                          ELSE obv[t - 1]
           /\ (\A t \in 2..Len(c) : c[t] > c[t - 1]) =>
                 \A t \in 1..Len(c) : obv[t] = obv[1] + SumRange(v, 2, t)

\* check_ma_transition looks at ma20.tail(5) and ma60.tail(5).
TransitionTail == 5

\* The frames given to check_ma_transition: flat at base up to the last five
\* bars, which close at base plus one of MaDevs each; with fewer bars than
\* the 60-bar window, exactly as many, and enough for the 60-bar mean to
\* exist on the bar before the last and on each of the last five.
MaBases == {10}
MaDevs == {-2, -1, 0, 1, 2}
MaLens ==
    {MaWindow60 - 1, MaWindow60, MaWindow60 + 1,
     MaWindow60 + TransitionTail - 1, MaWindow60 + TransitionTail}
MaInputs == [n : MaLens, base : MaBases, devs : [1..TransitionTail -> MaDevs]]

MaCloses(in) ==
    [i \in 1..in.n |->
        IF i <= in.n - TransitionTail THEN in.base
        ELSE in.base + in.devs[i - (in.n - TransitionTail)]]

\* series.tail(k) of a rolling mean: its last k values.
RollingTail(closes, w, k) ==
    [j \in 1..k |-> RollingMeanAt(closes, w, Len(closes) - k + j)]

\* check_ma_transition
CheckMaTransitionOf(closes) ==
    IF Len(closes) < MaWindow60 THEN FALSE
    ELSE LET ma20_recent == RollingTail(closes, MaWindow20, TransitionTail)
             ma60_recent == RollingTail(closes, MaWindow60, TransitionTail)
             crossover ==
                 /\ FLt(ma20_recent[TransitionTail - 1], ma60_recent[TransitionTail - 1])
                 /\ FGt(ma20_recent[TransitionTail], ma60_recent[TransitionTail])
         IN crossover \/ FGt(RollingMean(closes, MaWindow20), RollingMean(closes, MaWindow60))

CheckMaTransition ==
    /\ ix.pc = "call" /\ ix.fn = "check_ma_transition"
    /\ ix' = [ix EXCEPT !.pc = "done", !.out = CheckMaTransitionOf(MaCloses(ix.in))]
    /\ UNCHANGED <<rtVars, bkVars, wvVars, tqVars, rn, mn>>

\* MA20 is above (below) MA60 on bar t, both being defined.
Ma20Above(closes, t) ==
    /\ t >= MaWindow60
    /\ SumRange(closes, t - MaWindow20 + 1, t) * MaWindow60
          > SumRange(closes, t - MaWindow60 + 1, t) * MaWindow20
Ma20Below(closes, t) ==
    /\ t >= MaWindow60
    /\ SumRange(closes, t - MaWindow20 + 1, t) * MaWindow60
          < SumRange(closes, t - MaWindow60 + 1, t) * MaWindow20

\* MA20 crossed above MA60 between two consecutive bars of the last five.
CrossedInTail(closes) ==
    \E t \in (Len(closes) - TransitionTail + 2)..Len(closes) :
        Ma20Below(closes, t - 1) /\ Ma20Above(closes, t)

\* C24 as stated: on at least 60 bars check_ma_transition is true if and
\* only if MA20 crossed above MA60 within the last 5 bars or is above it on
\* the last bar.
C24_CrossedInLastFiveOrAbove ==
    (ix.pc = "done" /\ ix.fn = "check_ma_transition" /\ ix.in.n >= MaWindow60) =>
        LET closes == MaCloses(ix.in)
        IN ix.out <=> (CrossedInTail(closes) \/ Ma20Above(closes, Len(closes)))

HighPeriod == 20
LowPeriod == 10
\* 0.236 and 0.382, in thousandths.
Fib236 == 236
Fib382 == 382

\* The weekly frames given to identify_wave_pattern.  A bar's high is
\* WpBaseHigh and its low WpBaseLow, except that the bars at the distances
\* in.peaks from the last bar have the high WpPeakHigh and the bar at the
\* distance in.trough from the last bar has the low WpTroughLow (distance 0
\* is the last bar; WpNoTrough: no such bar).  The last bar closes at
\* in.close and the bar before it at in.close - in.move.
WpBaseHigh == 90
WpBaseLow == 60
WpPeakHigh == 100
WpTroughLow == 50
WpNoTrough == 99
WpLens == {HighPeriod + LowPeriod - 1, HighPeriod + LowPeriod, HighPeriod + LowPeriod + 1}
WpPeakDistances == {0, 1, 12, HighPeriod - 1, HighPeriod}
WpTroughDistances == {0, 1, 3, 10, 11, WpNoTrough}
WpCloses == {61, 62, 69, 70, 80, 81, 88, 89}
WpMoves == {-1, 0, 1}
WpInputs ==
    [n : WpLens, peaks : SUBSET WpPeakDistances, trough : WpTroughDistances,
     close : WpCloses, move : WpMoves]

WpFrame(in) ==
    [high |-> [i \in 1..in.n |-> IF (in.n - i) \in in.peaks THEN WpPeakHigh ELSE WpBaseHigh],
     low |-> [i \in 1..in.n |-> IF in.n - i = in.trough THEN WpTroughLow ELSE WpBaseLow],
     close |-> [i \in 1..in.n |->
                  IF i = in.n THEN in.close ELSE in.close - in.move]]

MaxOf(S) == CHOOSE x \in S : \A y \in S : y <= x
MinOf(S) == CHOOSE x \in S : \A y \in S : x <= y

\* recent_highs.idxmax(): the first bar of the last 20 that has the highest
\* high.
HighPos(frame) ==
    LET n == Len(frame.high)
        recent == (n - HighPeriod + 1)..n
        top == MaxOf({frame.high[i] : i \in recent})
    IN MinOf({i \in recent : frame.high[i] = top})

\* A search for the trough that goes on to the end of the frame.
PostHighEndOfFrame(high_pos, n) == n

\* df.iloc[high_pos:min(high_pos + low_period, len(df))]: the last bar of
\* the slice.
PostHighEnd(high_pos, n) == Min(high_pos + LowPeriod - 1, n)

\* A level measured up from the trough, in thousandths.
FibLevelFromLow(high, range, ratio) == 1000 * (high - range) + range * ratio

\* wave3_high - (wave_range * ratio), in thousandths.
FibLevel(high, range, ratio) == 1000 * high - range * ratio

\* identify_wave_pattern: None, or the dictionary it returns (the two levels
\* in thousandths).
IdentifyWavePatternOf(frame) ==
    LET n == Len(frame.high)
    IN IF n < HighPeriod + LowPeriod THEN NoneRec
       ELSE LET high_pos == HighPos(frame)
                wave3_high == frame.high[high_pos]
            IN IF high_pos < n
               THEN LET wave4_low ==
                            MinOf({frame.low[i] : i \in high_pos..PostHighEnd(high_pos, n)})
                        wave_range == wave3_high - wave4_low
                        fib_382 == FibLevel(wave3_high, wave_range, Fib382)
                        fib_236 == FibLevel(wave3_high, wave_range, Fib236)
                        current_price == frame.close[n]
                    IN [kind |-> "wave",
                        wave3_high |-> wave3_high,
                        wave4_low |-> wave4_low,
                        fib_236 |-> fib_236,
                        fib_382 |-> fib_382,
                        in_fib_zone |-> /\ 1000 * current_price <= fib_236
                                        /\ 1000 * current_price >= fib_382,
                        recent_rebound |-> frame.close[n] > frame.close[n - 1]]
               ELSE NoneRec

IdentifyWavePattern ==
    /\ ix.pc = "call" /\ ix.fn = "identify_wave_pattern"
    /\ ix' = [ix EXCEPT !.pc = "done", !.out = IdentifyWavePatternOf(WpFrame(ix.in))]
    /\ UNCHANGED <<rtVars, bkVars, wvVars, tqVars, rn, mn>>

\* identify_wave_pattern returned a dictionary.
WpReturned == ix.pc = "done" /\ ix.fn = "identify_wave_pattern" /\ ix.out # NoneRec

\* C25 as stated: the close is in the zone if and only if it lies between
\* the trough plus 23.6% and the trough plus 38.2% of the peak-trough range;
\* with peak 100 and trough 50 a close of 69 is in the zone.
C25_ZoneMeasuredFromTrough ==
    WpReturned =>
        LET P == ix.out.wave3_high
            T == ix.out.wave4_low
        IN ix.out.in_fib_zone <=>
              /\ 1000 * T + Fib236 * (P - T) <= 1000 * ix.in.close
              /\ 1000 * ix.in.close <= 1000 * T + Fib382 * (P - T)

\* C25 amended: the close is in the zone if and only if it lies between the
\* peak minus 38.2% and the peak minus 23.6% of the peak-trough range; with
\* peak 100 and trough 50 the zone is 80.9 to 88.2, and a close of 69 is not
\* in it.
C25_ZoneMeasuredFromPeak ==
    WpReturned =>
        LET P == ix.out.wave3_high
            T == ix.out.wave4_low
        IN /\ ix.out.in_fib_zone <=>
                 /\ 1000 * P - Fib382 * (P - T) <= 1000 * ix.in.close
                 /\ 1000 * ix.in.close <= 1000 * P - Fib236 * (P - T)
           /\ (P = 100 /\ T = 50) =>
                 (ix.out.in_fib_zone <=> (81 <= ix.in.close /\ ix.in.close <= 88))

\* A peak of 100 twelve bars before the last, a trough of 50 after it, and a
\* close of 69 on the rebound: not in the zone.
C25_Witness ==
    /\ WpReturned
    /\ ix.in.peaks = {12} /\ ix.in.trough = 3
    /\ ix.out.wave3_high = 100 /\ ix.out.wave4_low = 50
    /\ ix.in.close = 69 /\ ix.out.recent_rebound
    /\ ~ix.out.in_fib_zone

\* The result process_stock returns when every other indicator passes and
\* identify_wave_pattern gave wave.
WpResultWith(wave) ==
    WaveProcessStock(
        [code |-> "005930", marcap |-> MarketCapFloor, dates |-> TRUE, weeks |-> MinWeeks,
         ind |-> [rsi |-> [kind |-> "num", v |-> 20, rising |-> TRUE], wave |-> wave,
                  bollinger |-> TRUE, obv |-> TRUE, macd_hist |-> TRUE, macd_cross |-> TRUE,
                  ma240 |-> TRUE, vol_decrease |-> TRUE]])

\* C28: when the peak of the last 20 bars is the last bar of the frame,
\* identify_wave_pattern returns None, the Fibonacci criterion gives no point
\* and the result has fib_zone and rebound false; on every other frame of 30
\* bars and more the trough is the lowest low of the peak bar and of at most
\* the 9 bars after it, wave4_low <= wave3_high and fib_382 <= fib_236.
C28_PeakOnLastBarOrTrough ==
    (ix.pc = "done" /\ ix.fn = "identify_wave_pattern" /\ ix.in.n >= HighPeriod + LowPeriod) =>
        LET frame == WpFrame(ix.in)
            n == ix.in.n
            top == MaxOf({frame.high[i] : i \in (n - HighPeriod + 1)..n})
            peak == MinOf({i \in (n - HighPeriod + 1)..n : frame.high[i] = top})
        IN IF peak = n
           THEN /\ ix.out = NoneRec
                /\ ~PassFib(ix.out)
                /\ WpResultWith(ix.out).kind = "result"
                /\ ~WpResultWith(ix.out).fib_zone
                /\ ~WpResultWith(ix.out).rebound
                /\ WpResultWith(ix.out).score =
                      WeightBollinger + WeightRsi + WeightMacdCross + WeightMacdHist
                      + WeightObv + WeightVolume + WeightMa240 + WeightMarcap
           ELSE /\ ix.out # NoneRec
                /\ ix.out.wave4_low =
                      MinOf({frame.low[i] : i \in {j \in peak..n : j - peak <= LowPeriod - 1}})
                /\ ix.out.wave4_low <= ix.out.wave3_high
                /\ ix.out.fib_382 <= ix.out.fib_236

\* The last bar alone has the highest high.
C28_Witness ==
    /\ ix.pc = "done" /\ ix.fn = "identify_wave_pattern"
    /\ ix.in.n >= HighPeriod + LowPeriod
    /\ ix.in.peaks = {0}
    /\ ix.out = NoneRec

RsiPeriod == 14

\* The most closes drawn freely at the end of a frame given to calculate_rsi.
MaxRsiMoves == 3

\* The frames given to calculate_rsi: n bars whose close moves by in.drift
\* on every bar, except that the last bars move as in.moves says.
\* Two bars make the function's iloc[-3] fail; 14 bars give the 14-bar means
\* on the last bar only; 17 bars give them on the last three bars.
RsiLens == {2, RsiPeriod, RsiPeriod + 3}
RsiDrifts == {-1, 0, 1}
RsiMoves == {-2, 0, 1}
RsiInputs ==
    {[n |-> n, drift |-> d, moves |-> mv] :
        n \in RsiLens, d \in RsiDrifts,
        mv \in UNION {[1..k -> RsiMoves] : k \in 0..MaxRsiMoves}}

\* delta = df[close].diff(), from the second bar on.
RsiDelta(in, i) ==
    LET k == Len(in.moves)
        m == Min(k, in.n - 1)
    IN IF i > in.n - m THEN in.moves[k - (in.n - i)] ELSE in.drift

\* gain = delta.where(delta > 0, 0), loss = -delta.where(delta < 0, 0): the
\* first bar's delta is NaN and gives 0 in both.
RsiGain(in, i) == IF i >= 2 /\ RsiDelta(in, i) > 0 THEN RsiDelta(in, i) ELSE 0
RsiLoss(in, i) == IF i >= 2 /\ RsiDelta(in, i) < 0 THEN 0 - RsiDelta(in, i) ELSE 0

RECURSIVE RsiGainSum(_, _, _)
RsiGainSum(in, i, j) == IF i > j THEN 0 ELSE RsiGain(in, i) + RsiGainSum(in, i + 1, j)
RECURSIVE RsiLossSum(_, _, _)
RsiLossSum(in, i, j) == IF i > j THEN 0 ELSE RsiLoss(in, i) + RsiLossSum(in, i + 1, j)

\* df['rsi'] on bar t: 100 - 100 / (1 + avg_gain / avg_loss) in float
\* arithmetic.  The means are NaN before 14 bars; x / 0 is inf for x > 0,
\* which gives 100, and 0 / 0 is NaN, which stays NaN.
RsiAt(in, t) ==
    IF t < RsiPeriod THEN NaN
    ELSE LET g == RsiGainSum(in, t - RsiPeriod + 1, t)
             l == RsiLossSum(in, t - RsiPeriod + 1, t)
         IN IF l = 0
            THEN IF g = 0 THEN NaN ELSE Num(100)
            ELSE [nan |-> FALSE, sum |-> 100 * g, w |-> g + l]

\* calculate_rsi: current_rsi, oversold and rsi_rising; None, False and
\* False when an exception was caught (iloc[-3] of a frame of two bars).
CalculateRsiOf(in) ==
    IF in.n < 3
    THEN [current_rsi |-> NoneRec, oversold |-> FALSE, rsi_rising |-> FALSE]
    ELSE LET current_rsi == RsiAt(in, in.n)
         IN [current_rsi |-> current_rsi,
             oversold |-> FLt(current_rsi, Num(RsiOversold)),
             rsi_rising |-> /\ FGt(current_rsi, RsiAt(in, in.n - 1))
                            /\ FGt(RsiAt(in, in.n - 1), RsiAt(in, in.n - 2))]

CalculateRsi ==
    /\ ix.pc = "call" /\ ix.fn = "calculate_rsi"
    /\ ix' = [ix EXCEPT !.pc = "done", !.out = CalculateRsiOf(ix.in)]
    /\ UNCHANGED <<rtVars, bkVars, wvVars, tqVars, rn, mn>>

\* The sums of the gains and of the losses of the last 14 bars.
RsiLastGain == RsiGainSum(ix.in, ix.in.n - RsiPeriod + 1, ix.in.n)
RsiLastLoss == RsiLossSum(ix.in, ix.in.n - RsiPeriod + 1, ix.in.n)

\* C26 as stated: with a 14-bar average loss of zero the RSI is 100 when the
\* average gain is positive and the fail sentinel None when it is zero too,
\* and oversold is false in both cases; with a positive average loss the RSI
\* is a number between 0 and 100.
C26_RsiZeroLoss ==
    (ix.pc = "done" /\ ix.fn = "calculate_rsi" /\ ix.in.n >= RsiPeriod) =>
        LET rsi == ix.out.current_rsi
        IN /\ (RsiLastLoss = 0 /\ RsiLastGain > 0) => (rsi = Num(100) /\ ~ix.out.oversold)
           /\ (RsiLastLoss = 0 /\ RsiLastGain = 0) => (rsi = NoneRec /\ ~ix.out.oversold)
           /\ RsiLastLoss > 0 => (rsi # NoneRec /\ FGe(rsi, Num(0)) /\ FLe(rsi, Num(100)))

IxInit ==
    ix \in {IxCall("calculate_obv", in) : in \in ObvInputs}
            \cup {IxCall("check_ma_transition", in) : in \in MaInputs}
            \cup {IxCall("identify_wave_pattern", in) : in \in WpInputs}
            \cup {IxCall("calculate_rsi", in) : in \in RsiInputs}

IxNext == CalculateObv \/ CheckMaTransition \/ IdentifyWavePattern \/ CalculateRsi

InitIndicators ==
    /\ IxInit /\ rn = [pc |-> "idle"] /\ mn = [pc |-> "idle"]
    /\ RtIdle /\ BkIdle /\ WvIdle /\ TqIdle

SpecIndicators == InitIndicators /\ [][IxNext]_vars

====
